---- MODULE Spec2Model ----
(***************************************************************************)
(* A model of tools/generate_qr_code.py (the vCard / QR generator) and of  *)
(* the helpers it shares with tools/generate_vcard_qr.py.                   *)
(*                                                                         *)
(* A Python str is a sequence of characters; a character is a one-letter   *)
(* TLA+ string ("a", ";", "\\", "\r", "\n", "\t") or, for a character      *)
(* outside ASCII, its code point written "U+00E9".  None is a value that   *)
(* is no str.                                                              *)
(***************************************************************************)
EXTENDS Integers, Sequences, FiniteSets, TLC

VARIABLES
    pc,             \* position of the running entry point
    call,           \* the function applied and its arguments
    ret,            \* what the applied function returned or raised
    args,           \* main: the argparse namespace after prompt_if_missing
    given,          \* main: local given
    surname,        \* main: local surname
    fn,             \* main: local fn
    normalized_fp,  \* main: local normalized_fp
    vcard,          \* main: local vcard (the payload)
    stderr,         \* main: what was printed to sys.stderr, in order
    exit_code,      \* main: the argument of sys.exit, or NoExit
    svg_file,       \* the file at args.out_svg
    vcf_file        \* the file at args.vcf

mainvars == <<args, given, surname, fn, normalized_fp, vcard, stderr,
              exit_code, svg_file, vcf_file>>
vars == <<pc, call, ret, mainvars>>

----------------------------------------------------------------------------
(* Characters and Python's str primitives                                  *)

None == <<"None">>
BS == "\\"
CR == "\r"
LF == "\n"
TAB == "\t"
CRLF == <<CR, LF>>
LFonly == <<LF>>

Min(a, b) == IF a < b THEN a ELSE b

\* "".join over a list of strings, by halving (ss is a sequence of strings)
RECURSIVE FlattenRange(_, _, _)
FlattenRange(ss, lo, hi) ==
    IF lo > hi THEN <<>>
    ELSE IF lo = hi THEN ss[lo]
    ELSE LET mid == (lo + hi) \div 2
         IN  FlattenRange(ss, lo, mid) \o FlattenRange(ss, mid + 1, hi)

Flatten(ss) == FlattenRange(ss, 1, Len(ss))

\* sep.join(parts)
Join(sep, parts) ==
    Flatten([i \in 1..(2 * Len(parts) - 1) |->
                IF i % 2 = 1 THEN parts[(i + 1) \div 2] ELSE sep])

\* old occurs in s at index i
MatchAt(s, old, i) ==
    /\ i >= 1
    /\ i + Len(old) - 1 <= Len(s)
    /\ SubSeq(s, i, i + Len(old) - 1) = old

\* s.replace(old, new): every occurrence, left to right.  The patterns the
\* program replaces ("\\", ";", ",", "\r\n", "\n") cannot overlap themselves,
\* so the occurrences replaced are all the places where old matches.
Replace(s, old, new) ==
    LET piece(i) ==
            IF \E j \in (i - Len(old) + 1)..(i - 1) : MatchAt(s, old, j)
            THEN <<>>
            ELSE IF MatchAt(s, old, i) THEN new ELSE <<s[i]>>
    IN  Flatten([i \in 1..Len(s) |-> piece(i)])

\* the increasing enumeration of a finite set of integers
SortedSeq(S) ==
    [k \in 1..Cardinality(S) |->
        CHOOSE x \in S : Cardinality({y \in S : y < x}) = k - 1]

\* s.split(sep) for a non-empty sep that cannot overlap itself
SplitOn(s, sep) ==
    LET at == SortedSeq({i \in 1..Len(s) : MatchAt(s, sep, i)})
        n == Len(at)
        from(k) == IF k = 1 THEN 1 ELSE at[k - 1] + Len(sep)
        upto(k) == IF k = n + 1 THEN Len(s) ELSE at[k] - 1
    IN  [k \in 1..(n + 1) |-> SubSeq(s, from(k), upto(k))]

\* str.isspace for one character
IsSpace(c) == c \in {" ", TAB, LF, CR}

\* s.strip()
Strip(s) ==
    LET keep == {i \in 1..Len(s) : ~IsSpace(s[i])}
    IN  IF keep = {} THEN <<>>
        ELSE SubSeq(s, CHOOSE i \in keep : \A j \in keep : i <= j,
                       CHOOSE i \in keep : \A j \in keep : j <= i)

\* s.split(): the maximal runs of non-whitespace, in order
SplitWs(s) ==
    LET starts == SortedSeq({i \in 1..Len(s) :
                     ~IsSpace(s[i]) /\ (i = 1 \/ IsSpace(s[i - 1]))})
        stop(i) == CHOOSE j \in i..Len(s) :
                     /\ \A k \in i..j : ~IsSpace(s[k])
                     /\ (j = Len(s) \/ IsSpace(s[j + 1]))
    IN  [k \in 1..Len(starts) |-> SubSeq(s, starts[k], stop(starts[k]))]

\* s.startswith(prefix)
StartsWith(s, prefix) == MatchAt(s, prefix, 1)

\* bool(s) for an Optional[str]
Truthy(s) == s # None /\ s # <<>>

----------------------------------------------------------------------------
(* The helpers of the generator                                            *)

HTTP == <<"h", "t", "t", "p", ":", "/", "/">>
HTTPS == <<"h", "t", "t", "p", "s", ":", "/", "/">>

is_http_url(s) == Truthy(s) /\ (StartsWith(s, HTTP) \/ StartsWith(s, HTTPS))

\* escape_vcard_value with the backslash replaced last instead of first
escape_backslash_last(s) ==
    IF ~Truthy(s) THEN <<>>
    ELSE LET s1 == Replace(s, <<";">>, <<BS, ";">>)
             s2 == Replace(s1, <<",">>, <<BS, ",">>)
             s3 == Replace(s2, <<BS>>, <<BS, BS>>)
         IN  Replace(Replace(s3, CRLF, <<BS, "n">>), LFonly, <<BS, "n">>)

\* escape_vcard_value without the doubling of the backslash
escape_backslash_kept(s) ==
    IF ~Truthy(s) THEN <<>>
    ELSE LET s2 == Replace(s, <<";">>, <<BS, ";">>)
             s3 == Replace(s2, <<",">>, <<BS, ",">>)
         IN  Replace(Replace(s3, CRLF, <<BS, "n">>), LFonly, <<BS, "n">>)

escape_vcard_value(s) ==
    IF ~Truthy(s) THEN <<>>
    ELSE LET s1 == Replace(s, <<BS>>, <<BS, BS>>)
             s2 == Replace(s1, <<";">>, <<BS, ";">>)
             s3 == Replace(s2, <<",">>, <<BS, ",">>)
             s4 == Replace(Replace(s3, CRLF, <<BS, "n">>), LFonly, <<BS, "n">>)
         IN  s4

\* fold_vcard_line joining the slices with the terminator alone
fold_without_space(line, width, line_ending) ==
    IF Len(line) <= width THEN line
    ELSE LET n == (Len(line) + width - 1) \div width
             parts == [k \in 1..n |->
                         SubSeq(line, (k - 1) * width + 1,
                                Min(k * width, Len(line)))]
         IN  Join(line_ending, parts)

fold_vcard_line(line, width, line_ending) ==
    IF Len(line) <= width THEN line
    ELSE LET n == (Len(line) + width - 1) \div width
             parts == [k \in 1..n |->
                         SubSeq(line, (k - 1) * width + 1,
                                Min(k * width, Len(line)))]
             sep == line_ending \o <<" ">>
         IN  Join(sep, parts)

----------------------------------------------------------------------------
(* The helpers of the first generator, generate_vcard_qr.py               *)

\* the two tools
Tools == {"generate_qr_code", "generate_vcard_qr"}

\* is_http_url of generate_vcard_qr.py: no bool(s) in front; its callers
\* pass a non-empty string
is_http_url_v1(s) == StartsWith(s, HTTP) \/ StartsWith(s, HTTPS)

escape_vcard_value_v1(s) ==
    IF ~Truthy(s) THEN <<>>
    ELSE LET s1 == Replace(s, <<BS>>, <<BS, BS>>)
             s2 == Replace(s1, <<";">>, <<BS, ";">>)
             s3 == Replace(s2, <<",">>, <<BS, ",">>)
             s4 == Replace(Replace(s3, CRLF, <<BS, "n">>), LFonly, <<BS, "n">>)
         IN  s4

\* fold_vcard_line of generate_vcard_qr.py: the separator is always CR LF
\* and a space
fold_vcard_line_v1(line, width) ==
    IF Len(line) <= width THEN line
    ELSE LET n == (Len(line) + width - 1) \div width
             parts == [k \in 1..n |->
                         SubSeq(line, (k - 1) * width + 1,
                                Min(k * width, Len(line)))]
         IN  Join(CRLF \o <<" ">>, parts)

----------------------------------------------------------------------------
(* Idle values                                                             *)

NoCall == [f |-> "none"]
NoRet == [kind |-> "none"]
NoExit == -1
NoArgs == [none |-> TRUE]

Returned(v) == [kind |-> "return", value |-> v]
Raised(e) == [kind |-> "raise", error |-> e]

MainIdle ==
    /\ args = NoArgs
    /\ given = <<>>
    /\ surname = <<>>
    /\ fn = <<>>
    /\ normalized_fp = <<>>
    /\ vcard = None
    /\ stderr = <<>>
    /\ exit_code = NoExit
    /\ svg_file = None
    /\ vcf_file = None

\* all strings over alphabet of length at most n
RECURSIVE StringsUpTo(_, _)
StringsUpTo(alphabet, n) ==
    IF n = 0 THEN {<<>>}
    ELSE LET shorter == StringsUpTo(alphabet, n - 1)
         IN  shorter \cup {Append(x, c) : x \in shorter, c \in alphabet}

----------------------------------------------------------------------------
(* escape_vcard_value applied to one string                                *)

MaxLen == 4
EscapeAlphabet == {BS, ";", ",", CR, LF, "n", "a"}

InitEscape ==
    /\ pc = "call"
    /\ \E s \in StringsUpTo(EscapeAlphabet, MaxLen) \cup {None},
          tool \in Tools :
          call = [f |-> "escape_vcard_value", tool |-> tool, s |-> s]
    /\ ret = NoRet
    /\ MainIdle

CallEscape ==
    /\ pc = "call"
    /\ call.f = "escape_vcard_value"
    /\ ret' = Returned(IF call.tool = "generate_qr_code"
                        THEN escape_vcard_value(call.s)
                        ELSE escape_vcard_value_v1(call.s))
    /\ pc' = "returned"
    /\ UNCHANGED <<call, mainvars>>

SpecEscape == InitEscape /\ [][CallEscape]_vars

\* The escaping written as one pass over the input: at each position the
\* longest of CR LF, LF, backslash, semicolon, comma is rewritten.
RECURSIVE OnePassEscape(_)
OnePassEscape(s) ==
    IF s = <<>> THEN <<>>
    ELSE IF MatchAt(s, CRLF, 1)
         THEN <<BS, "n">> \o OnePassEscape(SubSeq(s, 3, Len(s)))
    ELSE IF Head(s) = LF THEN <<BS, "n">> \o OnePassEscape(Tail(s))
    ELSE IF Head(s) \in {BS, ";", ","}
         THEN <<BS, Head(s)>> \o OnePassEscape(Tail(s))
    ELSE <<Head(s)>> \o OnePassEscape(Tail(s))

EscapeReturned == pc = "returned" /\ call.f = "escape_vcard_value"

\* C1: escape_vcard_value (of either tool) never raises; for None or "" it returns ""; for
\* every other s it returns s with backslash doubled, then ';' and ','
\* prefixed by a backslash, then CR LF and LF turned into backslash + 'n';
\* the result holds no line feed, and every ';' and ',' in it directly
\* follows a backslash.
C1_EscapeResult ==
    EscapeReturned =>
        /\ ret.kind = "return"
        /\ call.s \in {None, <<>>} => ret.value = <<>>
        /\ call.s # None => ret.value = OnePassEscape(call.s)
        /\ \A i \in 1..Len(ret.value) :
              /\ ret.value[i] # LF
              /\ ret.value[i] \in {";", ","} => i > 1 /\ ret.value[i - 1] = BS

C1_Witness ==
    /\ EscapeReturned
    /\ call.tool = "generate_qr_code"
    /\ call.s = <<BS, ";", CR, LF>>
    /\ ret.value = <<BS, BS, BS, ";", BS, "n">>

----------------------------------------------------------------------------
(* escape_vcard_value applied to two strings                               *)

MaxPairLen == 2
PairAlphabet == {BS, ";", CR, LF, "n"}

InitEscapePair ==
    /\ pc = "call"
    /\ \E s, t \in StringsUpTo(PairAlphabet, MaxPairLen) :
          call = [f |-> "escape_vcard_value twice", s |-> s, t |-> t]
    /\ ret = NoRet
    /\ MainIdle

CallEscapePair ==
    /\ pc = "call"
    /\ call.f = "escape_vcard_value twice"
    /\ ret' = [kind |-> "return",
               s |-> escape_vcard_value(call.s),
               t |-> escape_vcard_value(call.t)]
    /\ pc' = "returned"
    /\ UNCHANGED <<call, mainvars>>

SpecEscapePair == InitEscapePair /\ [][CallEscapePair]_vars

\* The reader of an escaped value: backslash + 'n' is a line feed, backslash
\* + any other character is that character.
RECURSIVE Unescape(_)
Unescape(e) ==
    IF e = <<>> THEN <<>>
    ELSE IF Head(e) = BS /\ Len(e) >= 2
         THEN <<IF e[2] = "n" THEN LF ELSE e[2]>>
              \o Unescape(SubSeq(e, 3, Len(e)))
    ELSE <<Head(e)>> \o Unescape(Tail(e))

HasCRLF(s) == \E i \in 1..Len(s) : MatchAt(s, CRLF, i)

PairReturned == pc = "returned" /\ call.f = "escape_vcard_value twice"

\* C2 as stated: Unescape(Escape(s)) = s for every s, and two strings with
\* the same escaped form are the same string.
C2_RoundTripAll ==
    PairReturned =>
        /\ Unescape(ret.s) = call.s
        /\ ret.s = ret.t => call.s = call.t

\* C2 as amended: for strings in which no CR is directly followed by LF,
\* Unescape(Escape(s)) = s, and two such strings with the same escaped form
\* are the same string.
C2_RoundTripNoCRLF ==
    PairReturned =>
        /\ ~HasCRLF(call.s) => Unescape(ret.s) = call.s
        /\ (~HasCRLF(call.s) /\ ~HasCRLF(call.t) /\ ret.s = ret.t)
              => call.s = call.t

C2_Witness ==
    /\ PairReturned
    /\ call.s = <<BS, "n">>
    /\ call.t = <<CR, LF>>
    /\ ret.s = <<BS, BS, "n">>
    /\ ret.t = <<BS, "n">>

----------------------------------------------------------------------------
(* fold_vcard_line applied to one line                                     *)

MaxLineLen == 5
MaxWidth == 3
FoldAlphabet == {"a", " ", CR, LF}

InitFold ==
    /\ pc = "call"
    /\ \E line \in StringsUpTo(FoldAlphabet, MaxLineLen),
          width \in 1..MaxWidth :
          \/ \E line_ending \in {CRLF, LFonly} :
                call = [f |-> "fold_vcard_line", tool |-> "generate_qr_code",
                        line |-> line, width |-> width,
                        line_ending |-> line_ending]
          \/ call = [f |-> "fold_vcard_line", tool |-> "generate_vcard_qr",
                     line |-> line, width |-> width]
    /\ ret = NoRet
    /\ MainIdle

CallFold ==
    /\ pc = "call"
    /\ call.f = "fold_vcard_line"
    /\ ret' = Returned(IF call.tool = "generate_qr_code"
                        THEN fold_vcard_line(call.line, call.width,
                                             call.line_ending)
                        ELSE fold_vcard_line_v1(call.line, call.width))
    /\ pc' = "returned"
    /\ UNCHANGED <<call, mainvars>>

SpecFold == InitFold /\ [][CallFold]_vars

FoldReturned == pc = "returned" /\ call.f = "fold_vcard_line"

\* C3: a line no longer than the width is returned unchanged; a longer one
\* is returned as its consecutive slices of exactly width characters (the
\* last one of at most width), each two neighbours separated by the
\* terminator and one space, so that dropping those separators gives the
\* line back.  The terminator is the one passed to fold_vcard_line, and
\* CR LF in generate_vcard_qr.py, whose fold_vcard_line takes none.
C3_FoldSegments ==
    FoldReturned =>
        LET L == call.line
            w == call.width
            terminator == IF call.tool = "generate_qr_code"
                          THEN call.line_ending ELSE CRLF
            sep == terminator \o <<" ">>
            r == ret.value
            n == (Len(L) + w - 1) \div w
            stride == w + Len(sep)
            seg(k) == SubSeq(r, (k - 1) * stride + 1,
                             Min((k - 1) * stride + w, Len(r)))
        IN  /\ ret.kind = "return"
            /\ Len(L) <= w => r = L
            /\ Len(L) > w =>
                  /\ Len(r) = Len(L) + (n - 1) * Len(sep)
                  /\ \A k \in 1..n : Len(seg(k)) >= 1 /\ Len(seg(k)) <= w
                  /\ \A k \in 1..(n - 1) :
                        /\ Len(seg(k)) = w
                        /\ SubSeq(r, (k - 1) * stride + w + 1, k * stride) = sep
                  /\ Flatten([k \in 1..n |-> seg(k)]) = L

C3_Witness ==
    /\ FoldReturned
    /\ call.tool = "generate_qr_code"
    /\ call.line = <<"a", " ", LF, "a", "a">>
    /\ call.width = 2
    /\ call.line_ending = LFonly
    /\ ret.value = <<"a", " ", LF, " ", LF, "a", LF, " ", "a">>

----------------------------------------------------------------------------
(* The text constants of build_vcard                                       *)

\* "https://github.com/"
GITHUB_BASE ==
    <<"h", "t", "t", "p", "s", ":", "/", "/", "g", "i", "t", "h", "u", "b",
      ".", "c", "o", "m", "/">>
\* "BEGIN:VCARD"
BEGIN_VCARD == <<"B", "E", "G", "I", "N", ":", "V", "C", "A", "R", "D">>
\* "VERSION:3.0"
VERSION_3_0 == <<"V", "E", "R", "S", "I", "O", "N", ":", "3", ".", "0">>
\* "FN:"
FN_ == <<"F", "N", ":">>
\* "N:"
N_ == <<"N", ":">>
\* "TEL;TYPE=CELL:"
TEL_ ==
    <<"T", "E", "L", ";", "T", "Y", "P", "E", "=", "C", "E", "L", "L", ":">>
\* "EMAIL;TYPE=INTERNET:"
EMAIL_ ==
    <<"E", "M", "A", "I", "L", ";", "T", "Y", "P", "E", "=", "I", "N", "T",
      "E", "R", "N", "E", "T", ":">>
\* "URL:"
URL_ == <<"U", "R", "L", ":">>
\* "X-SOCIALPROFILE;TYPE=github:"
X_SOCIALPROFILE_ ==
    <<"X", "-", "S", "O", "C", "I", "A", "L", "P", "R", "O", "F", "I", "L",
      "E", ";", "T", "Y", "P", "E", "=", "g", "i", "t", "h", "u", "b", ":">>
\* "item1.URL;type=pref:"
ITEM1_URL_ ==
    <<"i", "t", "e", "m", "1", ".", "U", "R", "L", ";", "t", "y", "p", "e",
      "=", "p", "r", "e", "f", ":">>
\* "item1.X-ABLabel:GitHub"
ITEM1_X_ABLABEL ==
    <<"i", "t", "e", "m", "1", ".", "X", "-", "A", "B", "L", "a", "b", "e",
      "l", ":", "G", "i", "t", "H", "u", "b">>
\* "ADR:;;;"
ADR_ == <<"A", "D", "R", ":", ";", ";", ";">>
\* "NOTE:"
NOTE_ == <<"N", "O", "T", "E", ":">>
\* "PHOTO;VALUE=URI:"
PHOTO_ ==
    <<"P", "H", "O", "T", "O", ";", "V", "A", "L", "U", "E", "=", "U", "R",
      "I", ":">>
\* "KEY;VALUE=URI:"
KEY_ ==
    <<"K", "E", "Y", ";", "V", "A", "L", "U", "E", "=", "U", "R", "I", ":">>
\* "X-PGP-FP:"
X_PGP_FP_ == <<"X", "-", "P", "G", "P", "-", "F", "P", ":">>
\* "NICKNAME:"
NICKNAME_ == <<"N", "I", "C", "K", "N", "A", "M", "E", ":">>
\* "X-PREFERRED-NAME:"
X_PREFERRED_NAME_ ==
    <<"X", "-", "P", "R", "E", "F", "E", "R", "R", "E", "D", "-", "N", "A",
      "M", "E", ":">>
\* "END:VCARD"
END_VCARD == <<"E", "N", "D", ":", "V", "C", "A", "R", "D">>

----------------------------------------------------------------------------
(* normalize_fingerprint, build_vcard, approx_size_warn_and_check          *)

HexDigits == {"0", "1", "2", "3", "4", "5", "6", "7", "8", "9"}
HexUpper == {"A", "B", "C", "D", "E", "F"}
HexLower == {"a", "b", "c", "d", "e", "f"}

\* str.upper for one character (the letters the program can meet)
Upper(c) ==
    CASE c = "a" -> "A" [] c = "b" -> "B" [] c = "c" -> "C"
      [] c = "d" -> "D" [] c = "e" -> "E" [] c = "f" -> "F"
      [] OTHER -> c

\* the hex characters kept as they are, without .upper()
HexOnlyAsGiven(fp) ==
    SelectSeq(fp, LAMBDA c : c \in HexDigits \cup HexUpper \cup HexLower)

\* re.sub(r"[^0-9A-Fa-f]", "", fp).upper()
HexOnlyUpper(fp) ==
    LET kept == SelectSeq(fp, LAMBDA c : c \in HexDigits \cup HexUpper \cup HexLower)
    IN  [i \in 1..Len(kept) |-> Upper(kept[i])]

FingerprintLengths == {8, 16, 40}

normalize_fingerprint(fp) ==
    IF ~Truthy(fp) THEN Returned(<<>>)
    ELSE LET s == HexOnlyUpper(fp)
         IN  IF ~(Len(s) >= 1 /\ \A i \in 1..Len(s) : s[i] \in HexDigits \cup HexUpper)
             THEN Raised([type |-> "ValueError", what |-> "invalid characters"])
             ELSE IF Len(s) \notin FingerprintLengths
             THEN Raised([type |-> "ValueError", what |-> "length"])
             ELSE Returned(s)

FoldWidth == 75

\* the base put in front of every handle, a URL included
profile_url_always_prefixed(github) ==
    IF Truthy(github) THEN GITHUB_BASE \o github ELSE <<>>

\* build_vcard, lines 95-102: the profile URL of a handle
profile_url(github) ==
    IF Truthy(github)
    THEN IF is_http_url(github) THEN github ELSE GITHUB_BASE \o github
    ELSE <<>>

\* build_vcard, lines 114-120: BEGIN, VERSION and the name fields
identity_lines(a) ==
    LET fn_ == IF Truthy(a.full_name) THEN a.full_name ELSE <<>>
        family == escape_vcard_value(a.surname)
        given_e == escape_vcard_value(a.given)
        n_field == N_ \o family \o <<";">> \o given_e \o <<";", ";", ";">>
    IN  <<BEGIN_VCARD, VERSION_3_0, FN_ \o escape_vcard_value(fn_), n_field>>

\* build_vcard, lines 122-125: phone and email
contact_lines(a) ==
    LET email_e == escape_vcard_value(a.email)
        tel == escape_vcard_value(a.phone)
    IN  (IF tel # <<>> THEN <<TEL_ \o tel>> ELSE <<>>)
        \o (IF email_e # <<>> THEN <<EMAIL_ \o email_e>> ELSE <<>>)

\* build_vcard, lines 127-131: URL, X-SOCIALPROFILE and the labelled item
link_lines(a) ==
    LET github_url == profile_url(a.github)
        x_social ==
            IF Truthy(a.github)
            THEN X_SOCIALPROFILE_ \o escape_vcard_value(github_url)
            ELSE <<>>
        apple_item_lines ==
            IF Truthy(a.github)
            THEN <<ITEM1_URL_ \o escape_vcard_value(github_url),
                   ITEM1_X_ABLABEL>>
            ELSE <<>>
    IN  (IF github_url # <<>>
         THEN <<URL_ \o escape_vcard_value(github_url)>> ELSE <<>>)
        \o (IF x_social # <<>> THEN <<x_social>> ELSE <<>>)
        \o apple_item_lines

\* build_vcard, lines 133-136: address and note
address_note_lines(a) ==
    LET locality == escape_vcard_value(a.city)
        country_e == escape_vcard_value(a.country)
        note_e == escape_vcard_value(a.note)
        adr == ADR_ \o locality \o <<";", ";">> \o country_e
    IN  (IF locality # <<>> \/ country_e # <<>> THEN <<adr>> ELSE <<>>)
        \o (IF note_e # <<>> THEN <<NOTE_ \o note_e>> ELSE <<>>)

\* build_vcard, lines 138-149: avatar, key URI and fingerprint (the URI
\* checks are in build_vcard below)
key_lines(a) ==
    (IF Truthy(a.avatar_uri)
     THEN <<PHOTO_ \o escape_vcard_value(a.avatar_uri)>> ELSE <<>>)
    \o (IF Truthy(a.pgp_key_uri)
        THEN <<KEY_ \o escape_vcard_value(a.pgp_key_uri)>> ELSE <<>>)
    \o (IF Truthy(a.pgp_fingerprint)
        THEN <<X_PGP_FP_ \o escape_vcard_value(a.pgp_fingerprint)>>
        ELSE <<>>)

\* build_vcard, lines 151-156: the preferred name and END
nickname_end_lines(a) ==
    LET pref_e == escape_vcard_value(a.preferred_name)
    IN  (IF Truthy(a.preferred_name)
         THEN <<NICKNAME_ \o pref_e, X_PREFERRED_NAME_ \o pref_e>>
         ELSE <<>>)
        \o <<END_VCARD>>

\* the lines with the avatar and key block ahead of address and note
vcard_lines_keys_first(a) ==
    identity_lines(a) \o contact_lines(a) \o link_lines(a)
        \o key_lines(a) \o address_note_lines(a) \o nickname_end_lines(a)

\* the list lines of build_vcard, in the order of its appends
vcard_lines(a) ==
    identity_lines(a) \o contact_lines(a) \o link_lines(a)
        \o address_note_lines(a) \o key_lines(a) \o nickname_end_lines(a)

\* the end of build_vcard: join, split, fold every line, join, terminate
fold_and_join(lines, line_ending) ==
    LET joined == Join(line_ending, lines)
        split == SplitOn(joined, line_ending)
        folded_lines == [k \in 1..Len(split) |->
                            fold_vcard_line(split[k], FoldWidth, line_ending)]
    IN  Join(line_ending, folded_lines) \o line_ending

\* any scheme accepted
avatar_any_scheme(avatar_uri) ==
    \E i \in 1..Len(avatar_uri) : MatchAt(avatar_uri, <<":", "/", "/">>, i)

avatar_accepted(avatar_uri) == is_http_url(avatar_uri)

pgp_key_uri_accepted(pgp_key_uri) == is_http_url(pgp_key_uri)

build_vcard(a) ==
    IF Truthy(a.avatar_uri) /\ ~avatar_accepted(a.avatar_uri)
    THEN Raised([type |-> "ValueError", what |-> "avatar"])
    ELSE IF Truthy(a.pgp_key_uri) /\ ~pgp_key_uri_accepted(a.pgp_key_uri)
    THEN Raised([type |-> "ValueError", what |-> "pgp key uri"])
    ELSE Returned(fold_and_join(vcard_lines(a), a.line_ending))

\* "TZ:"
TZ_ == <<"T", "Z", ":">>

\* build_vcard of generate_vcard_qr.py: the list lines up to the avatar
vcard_lines_v1(a) ==
    LET fn_ == escape_vcard_value_v1(a.full_name)
        email_e == escape_vcard_value_v1(a.email)
        tel == escape_vcard_value_v1(a.phone)
        github_url ==
            IF Truthy(a.github)
            THEN IF is_http_url_v1(a.github) THEN a.github
                 ELSE GITHUB_BASE \o a.github
            ELSE <<>>
        x_social ==
            IF Truthy(a.github)
            THEN X_SOCIALPROFILE_ \o escape_vcard_value_v1(github_url)
            ELSE <<>>
        locality == escape_vcard_value_v1(a.city)
        tz == escape_vcard_value_v1(a.timezone)
        note_e == escape_vcard_value_v1(a.note)
        adr == ADR_ \o locality \o <<";", ";", ";">>
    IN  <<BEGIN_VCARD, VERSION_3_0, FN_ \o fn_,
          N_ \o <<";">> \o fn_ \o <<";", ";", ";">>>>
        \o (IF tel # <<>> THEN <<TEL_ \o tel>> ELSE <<>>)
        \o (IF email_e # <<>> THEN <<EMAIL_ \o email_e>> ELSE <<>>)
        \o (IF github_url # <<>>
            THEN <<URL_ \o escape_vcard_value_v1(github_url)>> ELSE <<>>)
        \o (IF x_social # <<>> THEN <<x_social>> ELSE <<>>)
        \o (IF locality # <<>> THEN <<adr>> ELSE <<>>)
        \o (IF tz # <<>> THEN <<TZ_ \o tz>> ELSE <<>>)
        \o (IF note_e # <<>> THEN <<NOTE_ \o note_e>> ELSE <<>>)

\* build_vcard of generate_vcard_qr.py: the end, always with CR LF
fold_and_join_v1(lines) ==
    LET vcard_ == Join(CRLF, lines)
        split == SplitOn(vcard_, CRLF)
        folded_lines == [k \in 1..Len(split) |->
                            fold_vcard_line_v1(split[k], FoldWidth)]
    IN  Join(CRLF, folded_lines) \o CRLF

build_vcard_v1(a) ==
    IF Truthy(a.avatar_uri) /\ ~is_http_url_v1(a.avatar_uri)
    THEN Raised([type |-> "ValueError", what |-> "avatar"])
    ELSE Returned(fold_and_join_v1(
            vcard_lines_v1(a)
            \o (IF Truthy(a.avatar_uri)
                THEN <<PHOTO_ \o escape_vcard_value_v1(a.avatar_uri)>>
                ELSE <<>>)
            \o <<END_VCARD>>))

WARN_QR_BYTES == 2000
MAX_QR_BYTES == 2950

\* the number of bytes of one character in UTF-8
Utf8Bytes(c) ==
    CASE c = "U+00E9" -> 2
      [] c = "U+20AC" -> 3
      [] c = "U+1F600" -> 4
      [] OTHER -> 1

\* len(s.encode("utf-8")), summed by halving
RECURSIVE Utf8LenRange(_, _, _)
Utf8LenRange(s, lo, hi) ==
    IF lo > hi THEN 0
    ELSE IF lo = hi THEN Utf8Bytes(s[lo])
    ELSE LET mid == (lo + hi) \div 2
         IN  Utf8LenRange(s, lo, mid) + Utf8LenRange(s, mid + 1, hi)

Utf8Len(s) == Utf8LenRange(s, 1, Len(s))

\* the warning threshold compared with >=
size_warns_at_threshold(length) == length >= WARN_QR_BYTES

size_warns(length) == length > WARN_QR_BYTES

\* no payload is too large
size_rejects_never(length) == FALSE

size_rejects(length) == length > MAX_QR_BYTES

\* what approx_size_warn_and_check prints and whether it raises
approx_size_warn_and_check(s) ==
    LET length == Utf8Len(s)
    IN  [printed |-> IF size_warns(length)
                     THEN <<[what |-> "size warning", length |-> length]>>
                     ELSE <<>>,
         outcome |-> IF size_rejects(length)
                     THEN Raised([type |-> "ValueError", what |-> "too large",
                                  length |-> length])
                     ELSE Returned(None)]

\* approx_size_warn_and_check of generate_vcard_qr.py
approx_size_warn_and_check_v1(s) ==
    LET length == Utf8Len(s)
    IN  [printed |-> IF length > WARN_QR_BYTES
                     THEN <<[what |-> "size warning", length |-> length]>>
                     ELSE <<>>,
         outcome |-> IF length > MAX_QR_BYTES
                     THEN Raised([type |-> "ValueError", what |-> "too large",
                                  length |-> length])
                     ELSE Returned(None)]

----------------------------------------------------------------------------
(* Writing a file                                                          *)

\* the UTF-8 bytes of one character; an ASCII character stands for its byte
Utf8Char(c) ==
    CASE c = "U+00E9" -> <<"0xC3", "0xA9">>
      [] c = "U+20AC" -> <<"0xE2", "0x82", "0xAC">>
      [] c = "U+1F600" -> <<"0xF0", "0x9F", "0x98", "0x80">>
      [] OTHER -> <<c>>

\* s.encode("utf-8")
Utf8Encode(s) == Flatten([i \in 1..Len(s) |-> Utf8Char(s[i])])

\* f.write(text) on a file opened in text mode with newline=newline: every
\* "\n" of the text is written as newline, unless newline is "\n" itself
TextWrite(text, newline) ==
    Utf8Encode(IF newline # LFonly THEN Replace(text, LFonly, newline)
               ELSE text)

\* f.write(data) on a file opened with "wb"
BinaryWrite(data) == data

\* save_vcf: the bytes in the file at path after it returns
save_vcf(vcard_text, line_ending) ==
    IF line_ending = CRLF
    THEN BinaryWrite(Utf8Encode(vcard_text))
    ELSE TextWrite(vcard_text, LFonly)

\* save_vcf of generate_vcard_qr.py: the bytes in the file at path after it
\* returns
save_vcf_v1(vcard_text) == TextWrite(vcard_text, CRLF)

----------------------------------------------------------------------------
(* main: the steps between parse_args / prompt_if_missing and the return   *)

LineEnding(a) == IF a.line_ending = "crlf" THEN CRLF ELSE LFonly

\* the split of the full name keeping the last token in the given name too
resolve_given_all_tokens(a) ==
    LET given_s == Strip(a.given)
        surname_s == Strip(a.surname)
        name_tokens == SplitWs(Strip(a.name))
    IN  IF ~(given_s # <<>> \/ surname_s # <<>>)
        THEN IF Len(name_tokens) >= 2
             THEN [surname |-> name_tokens[Len(name_tokens)],
                   given |-> Join(<<" ">>, name_tokens)]
             ELSE [surname |-> <<>>, given |-> Strip(a.name)]
        ELSE [surname |-> surname_s, given |-> given_s]

\* main, lines 298-308: the structured given name and surname
resolve_given_surname(a) ==
    LET given_s == Strip(a.given)
        surname_s == Strip(a.surname)
        name_tokens == SplitWs(Strip(a.name))
    IN  IF ~(given_s # <<>> \/ surname_s # <<>>)
        THEN IF Len(name_tokens) >= 2
             THEN [surname |-> name_tokens[Len(name_tokens)],
                   given |-> Join(<<" ">>,
                                  SubSeq(name_tokens, 1, Len(name_tokens) - 1))]
             ELSE [surname |-> <<>>, given |-> Strip(a.name)]
        ELSE [surname |-> surname_s, given |-> given_s]

\* the formatted name from the preferred name alone, without the surname
decide_fn_without_surname(a, given_, surname_) ==
    LET fn_ == Strip(a.name)
    IN  IF fn_ # <<>> THEN fn_
        ELSE IF a.preferred_name # <<>> THEN Strip(a.preferred_name)
        ELSE Strip(Join(<<" ">>,
                        SelectSeq(<<given_, surname_>>, LAMBDA p : p # <<>>)))

\* main, lines 310-318: the formatted name
decide_fn(a, given_, surname_) ==
    LET fn_ == Strip(a.name)
    IN  IF fn_ # <<>> THEN fn_
        ELSE IF a.preferred_name # <<>>
        THEN IF surname_ # <<>>
             THEN Strip(a.preferred_name) \o <<" ">> \o surname_
             ELSE Strip(a.preferred_name)
        ELSE Strip(Join(<<" ">>,
                        SelectSeq(<<given_, surname_>>, LAMBDA p : p # <<>>)))

\* the keyword arguments of main's call of build_vcard
BuildArgsOfMain ==
    [full_name |-> fn,
     given |-> given,
     surname |-> surname,
     preferred_name |-> Strip(args.preferred_name),
     email |-> args.email,
     phone |-> args.phone,
     github |-> args.github,
     city |-> args.city,
     country |-> args.country,
     note |-> args.note,
     avatar_uri |-> args.avatar,
     pgp_key_uri |-> args.pgp_key_uri,
     pgp_fingerprint |-> normalized_fp,
     line_ending |-> LineEnding(args)]

Exit(code, message) ==
    /\ stderr' = Append(stderr, message)
    /\ exit_code' = code
    /\ pc' = "exit"

CheckName ==
    /\ call.f = "main"
    /\ pc = "check_name"
    /\ IF ~(args.name # <<>> \/ args.given # <<>> \/ args.surname # <<>>)
       THEN Exit(2, [what |-> "name required"])
       ELSE pc' = "check_avatar" /\ UNCHANGED <<stderr, exit_code>>
    /\ UNCHANGED <<call, ret, args, given, surname, fn, normalized_fp, vcard,
                   svg_file, vcf_file>>

CheckAvatar ==
    /\ call.f = "main"
    /\ pc = "check_avatar"
    /\ IF args.avatar # <<>> /\ ~is_http_url(args.avatar)
       THEN Exit(3, [what |-> "avatar must be an http(s) URL"])
       ELSE pc' = "check_pgp_key_uri" /\ UNCHANGED <<stderr, exit_code>>
    /\ UNCHANGED <<call, ret, args, given, surname, fn, normalized_fp, vcard,
                   svg_file, vcf_file>>

CheckPgpKeyUri ==
    /\ call.f = "main"
    /\ pc = "check_pgp_key_uri"
    /\ IF args.pgp_key_uri # <<>> /\ ~is_http_url(args.pgp_key_uri)
       THEN Exit(4, [what |-> "pgp key uri must be an http(s) URL"])
       ELSE pc' = "normalize_fp" /\ UNCHANGED <<stderr, exit_code>>
    /\ UNCHANGED <<call, ret, args, given, surname, fn, normalized_fp, vcard,
                   svg_file, vcf_file>>

NormalizeFp ==
    /\ call.f = "main"
    /\ pc = "normalize_fp"
    /\ IF args.pgp_fingerprint # <<>>
       THEN LET r == normalize_fingerprint(args.pgp_fingerprint)
            IN  IF r.kind = "raise"
                THEN /\ Exit(5, [what |-> "invalid fingerprint"])
                     /\ UNCHANGED normalized_fp
                ELSE /\ normalized_fp' = r.value
                     /\ stderr' =
                          IF Len(r.value) = 8
                          THEN Append(stderr, [what |-> "8-hex warning"])
                          ELSE IF Len(r.value) = 16
                          THEN Append(stderr, [what |-> "16-hex note"])
                          ELSE stderr
                     /\ pc' = "resolve_names"
                     /\ UNCHANGED exit_code
       ELSE /\ pc' = "resolve_names"
            /\ UNCHANGED <<normalized_fp, stderr, exit_code>>
    /\ UNCHANGED <<call, ret, args, given, surname, fn, vcard, svg_file,
                   vcf_file>>

ResolveNames ==
    /\ call.f = "main"
    /\ pc = "resolve_names"
    /\ given' = resolve_given_surname(args).given
    /\ surname' = resolve_given_surname(args).surname
    /\ pc' = "decide_fn"
    /\ UNCHANGED <<call, ret, args, fn, normalized_fp, vcard, stderr,
                   exit_code, svg_file, vcf_file>>

DecideFn ==
    /\ call.f = "main"
    /\ pc = "decide_fn"
    /\ fn' = decide_fn(args, given, surname)
    /\ pc' = "build"
    /\ UNCHANGED <<call, ret, args, given, surname, normalized_fp, vcard,
                   stderr, exit_code, svg_file, vcf_file>>

BuildVcard ==
    /\ call.f = "main"
    /\ pc = "build"
    /\ LET r == build_vcard(BuildArgsOfMain)
       IN  IF r.kind = "raise"
           THEN Exit(6, [what |-> "failed to build vCard"]) /\ UNCHANGED vcard
           ELSE /\ vcard' = r.value
                /\ pc' = "size_check"
                /\ UNCHANGED <<stderr, exit_code>>
    /\ UNCHANGED <<call, ret, args, given, surname, fn, normalized_fp,
                   svg_file, vcf_file>>

SizeCheck ==
    /\ call.f = "main"
    /\ pc = "size_check"
    /\ LET r == approx_size_warn_and_check(vcard)
       IN  IF r.outcome.kind = "raise"
           THEN /\ stderr' = stderr \o r.printed
                            \o <<[what |-> "too large",
                                  length |-> r.outcome.error.length]>>
                /\ exit_code' = 7
                /\ pc' = "exit"
           ELSE /\ stderr' = stderr \o r.printed
                /\ pc' = "generate_svg"
                /\ UNCHANGED exit_code
    /\ UNCHANGED <<call, ret, args, given, surname, fn, normalized_fp, vcard,
                   svg_file, vcf_file>>

\* a file holding the SVG of the QR code of a payload
SvgOf(payload) == <<"QR", payload>>

\* a file that was opened for writing and not written to its end
Incomplete == <<"incomplete">>

\* what the qrcode library and the file system do in a run
SvgOutcomes == {"saved", "make raises", "save raises"}
VcfOutcomes == {"written", "open raises"}

\* generate_qr_svg past its check of the SVG factory: make raises before a
\* file is opened (the payload does not fit a QR code), img.save raises
\* with the file opened, or the QR of the payload is saved at out_path
generate_qr_svg(vcard_text, file, outcome) ==
    CASE outcome = "saved" -> [raised |-> FALSE, file |-> SvgOf(vcard_text)]
      [] outcome = "make raises" -> [raised |-> TRUE, file |-> file]
      [] outcome = "save raises" -> [raised |-> TRUE, file |-> Incomplete]

\* generate_qr_svg: without the SVG factory it raises before anything is
\* written
GenerateSvg ==
    /\ call.f = "main"
    /\ pc = "generate_svg"
    /\ IF ~call.svg_factory_available
       THEN Exit(8, [what |-> "failed to generate SVG QR"])
            /\ UNCHANGED svg_file
       ELSE LET r == generate_qr_svg(vcard, svg_file, call.svg)
            IN  /\ svg_file' = r.file
                /\ IF r.raised
                   THEN Exit(8, [what |-> "failed to generate SVG QR"])
                   ELSE pc' = "save_vcf" /\ UNCHANGED <<stderr, exit_code>>
    /\ UNCHANGED <<call, ret, args, given, surname, fn, normalized_fp, vcard,
                   vcf_file>>

\* the optional .vcf: a failure to write it is printed and main returns
SaveVcf ==
    /\ call.f = "main"
    /\ pc = "save_vcf"
    /\ IF args.vcf # ""
       THEN IF call.vcf = "written"
            THEN /\ vcf_file' = save_vcf(vcard, LineEnding(args))
                 /\ UNCHANGED stderr
            ELSE /\ stderr' = Append(stderr,
                                     [what |-> "failed to write .vcf file"])
                 /\ UNCHANGED vcf_file
       ELSE UNCHANGED <<vcf_file, stderr>>
    /\ pc' = "done"
    /\ UNCHANGED <<call, ret, args, given, surname, fn, normalized_fp, vcard,
                   exit_code, svg_file>>

----------------------------------------------------------------------------
(* main of generate_vcard_qr.py                                            *)

BuildArgsOfMainV1 ==
    [full_name |-> args.name, email |-> args.email, phone |-> args.phone,
     github |-> args.github, city |-> args.city, timezone |-> args.timezone,
     note |-> args.note, avatar_uri |-> args.avatar]

CheckNameV1 ==
    /\ call.f = "main_v1"
    /\ pc = "check_name"
    /\ IF args.name = <<>>
       THEN Exit(2, [what |-> "name required"])
       ELSE pc' = "check_avatar" /\ UNCHANGED <<stderr, exit_code>>
    /\ UNCHANGED <<call, ret, args, given, surname, fn, normalized_fp, vcard,
                   svg_file, vcf_file>>

CheckAvatarV1 ==
    /\ call.f = "main_v1"
    /\ pc = "check_avatar"
    /\ IF args.avatar # <<>> /\ ~is_http_url_v1(args.avatar)
       THEN Exit(3, [what |-> "avatar must be an http(s) URL"])
       ELSE pc' = "build" /\ UNCHANGED <<stderr, exit_code>>
    /\ UNCHANGED <<call, ret, args, given, surname, fn, normalized_fp, vcard,
                   svg_file, vcf_file>>

BuildVcardV1 ==
    /\ call.f = "main_v1"
    /\ pc = "build"
    /\ LET r == build_vcard_v1(BuildArgsOfMainV1)
       IN  IF r.kind = "raise"
           THEN Exit(4, [what |-> "failed to build vCard"]) /\ UNCHANGED vcard
           ELSE /\ vcard' = r.value
                /\ pc' = "size_check"
                /\ UNCHANGED <<stderr, exit_code>>
    /\ UNCHANGED <<call, ret, args, given, surname, fn, normalized_fp,
                   svg_file, vcf_file>>

SizeCheckV1 ==
    /\ call.f = "main_v1"
    /\ pc = "size_check"
    /\ LET r == approx_size_warn_and_check_v1(vcard)
       IN  IF r.outcome.kind = "raise"
           THEN /\ stderr' = stderr \o r.printed
                            \o <<[what |-> "too large",
                                  length |-> r.outcome.error.length]>>
                /\ exit_code' = 5
                /\ pc' = "exit"
           ELSE /\ stderr' = stderr \o r.printed
                /\ pc' = "generate_svg"
                /\ UNCHANGED exit_code
    /\ UNCHANGED <<call, ret, args, given, surname, fn, normalized_fp, vcard,
                   svg_file, vcf_file>>

GenerateSvgV1 ==
    /\ call.f = "main_v1"
    /\ pc = "generate_svg"
    /\ LET r == generate_qr_svg(vcard, svg_file, call.svg)
       IN  /\ svg_file' = r.file
           /\ IF r.raised
              THEN Exit(6, [what |-> "failed to generate SVG QR"])
              ELSE pc' = "save_vcf" /\ UNCHANGED <<stderr, exit_code>>
    /\ UNCHANGED <<call, ret, args, given, surname, fn, normalized_fp, vcard,
                   vcf_file>>

SaveVcfV1 ==
    /\ call.f = "main_v1"
    /\ pc = "save_vcf"
    /\ IF args.vcf # ""
       THEN IF call.vcf = "written"
            THEN /\ vcf_file' = save_vcf_v1(vcard)
                 /\ UNCHANGED stderr
            ELSE /\ stderr' = Append(stderr,
                                     [what |-> "failed to write .vcf file"])
                 /\ UNCHANGED vcf_file
       ELSE UNCHANGED <<vcf_file, stderr>>
    /\ pc' = "done"
    /\ UNCHANGED <<call, ret, args, given, surname, fn, normalized_fp, vcard,
                   exit_code, svg_file>>

\* build_vcard called on its own
CallBuild ==
    /\ pc = "call"
    /\ call.f = "build_vcard"
    /\ ret' = build_vcard(call.a)
    /\ pc' = "returned"
    /\ UNCHANGED <<call, mainvars>>

\* build_vcard of generate_vcard_qr.py called on its own
CallBuildV1 ==
    /\ pc = "call"
    /\ call.f = "build_vcard_v1"
    /\ ret' = build_vcard_v1(call.a)
    /\ pc' = "returned"
    /\ UNCHANGED <<call, mainvars>>

Next ==
    \/ CheckName
    \/ CheckAvatar
    \/ CheckPgpKeyUri
    \/ NormalizeFp
    \/ ResolveNames
    \/ DecideFn
    \/ BuildVcard
    \/ SizeCheck
    \/ GenerateSvg
    \/ SaveVcf
    \/ CallBuild
    \/ CallBuildV1
    \/ CheckNameV1
    \/ CheckAvatarV1
    \/ BuildVcardV1
    \/ SizeCheckV1
    \/ GenerateSvgV1
    \/ SaveVcfV1

----------------------------------------------------------------------------
(* The inputs                                                              *)

\* "Alice Example"
AliceExample ==
    <<"A", "l", "i", "c", "e", " ", "E", "x", "a", "m", "p", "l", "e">>
\* "Ada Lovelace"
AdaLovelace == <<"A", "d", "a", " ", "L", "o", "v", "e", "l", "a", "c", "e">>
\* "Ada\tKing  Lovelace "
AdaKingLovelace ==
    <<"A", "d", "a", "\t", "K", "i", "n", "g", " ", " ", "L", "o", "v",
      "e", "l", "a", "c", "e", " ">>
\* "alice@example.com"
AnEmail ==
    <<"a", "l", "i", "c", "e", "@", "e", "x", "a", "m", "p", "l", "e", ".",
      "c", "o", "m">>
\* "+1 555;0100"
APhone == <<"+", "1", " ", "5", "5", "5", ";", "0", "1", "0", "0">>
\* "alice"
Alice == <<"a", "l", "i", "c", "e">>
\* "https://gitlab.com/a,b"
AProfileUrl ==
    <<"h", "t", "t", "p", "s", ":", "/", "/", "g", "i", "t", "l", "a", "b",
      ".", "c", "o", "m", "/", "a", ",", "b">>
\* "Ulm"
ACity == <<"U", "l", "m">>
\* "DE"
ACountry == <<"D", "E">>
\* "Europe/Rome"
ATimezone == <<"E", "u", "r", "o", "p", "e", "/", "R", "o", "m", "e">>
\* "hi;\r\nthere\n"
ANote == <<"h", "i", ";", "\r", "\n", "t", "h", "e", "r", "e", "\n">>
\* "https://x.org/a.jpg"
HttpsAvatar ==
    <<"h", "t", "t", "p", "s", ":", "/", "/", "x", ".", "o", "r", "g", "/",
      "a", ".", "j", "p", "g">>
\* "ftp://x.com/a.jpg"
FtpAvatar ==
    <<"f", "t", "p", ":", "/", "/", "x", ".", "c", "o", "m", "/", "a", ".",
      "j", "p", "g">>
\* "http://k.org/key,1"
HttpKey ==
    <<"h", "t", "t", "p", ":", "/", "/", "k", ".", "o", "r", "g", "/", "k",
      "e", "y", ",", "1">>
\* "key.asc"
LocalKey == <<"k", "e", "y", ".", "a", "s", "c">>
\* "DEADBEEF"
Fp8 == <<"D", "E", "A", "D", "B", "E", "E", "F">>
\* "dead beef 0123 4567"
Fp16 ==
    <<"d", "e", "a", "d", " ", "b", "e", "e", "f", " ", "0", "1", "2", "3",
      " ", "4", "5", "6", "7">>
\* "AB:CD:EF:01:23:45:67:89:AB:CD:EF:01:23:45:67:89:AB:CD:EF:01"
Fp40 ==
    <<"A", "B", ":", "C", "D", ":", "E", "F", ":", "0", "1", ":", "2", "3",
      ":", "4", "5", ":", "6", "7", ":", "8", "9", ":", "A", "B", ":", "C",
      "D", ":", "E", "F", ":", "0", "1", ":", "2", "3", ":", "4", "5", ":",
      "6", "7", ":", "8", "9", ":", "A", "B", ":", "C", "D", ":", "E", "F",
      ":", "0", "1">>
\* "zz"
FpNoHex == <<"z", "z">>
\* "1234567"
Fp7 == <<"1", "2", "3", "4", "5", "6", "7">>
\* "ABCDEF0123456789ABCDEF0123456789ABCDEF01"
Fp40Hex ==
    <<"A", "B", "C", "D", "E", "F", "0", "1", "2", "3", "4", "5", "6", "7",
      "8", "9", "A", "B", "C", "D", "E", "F", "0", "1", "2", "3", "4", "5",
      "6", "7", "8", "9", "A", "B", "C", "D", "E", "F", "0", "1">>
\* "DEADBEEF01234567"
Fp16Hex ==
    <<"D", "E", "A", "D", "B", "E", "E", "F", "0", "1", "2", "3", "4", "5",
      "6", "7">>

MaxNameLen == 3
MaxPartLen == 1
LongLen == 80

\* a long note with characters to escape, and a long profile handle
LongNote ==
    [i \in 1..LongLen |->
        IF i % 7 = 0 THEN ";" ELSE IF i % 30 = 0 THEN LF ELSE "x"]
LongHandle == [i \in 1..LongLen |-> "g"]

Names ==
    StringsUpTo({"a", " "}, MaxNameLen)
        \cup {AliceExample, AdaLovelace, AdaKingLovelace, <<" ", TAB>>}
Givens == StringsUpTo({"G", " "}, MaxPartLen) \cup {<<" ", "G", " ">>}
Surnames == {<<>>, <<"S">>, <<" ">>, <<"S", ";">>}
Preferreds == {<<>>, <<"P">>, <<" ">>, <<"P", " ">>}

DefaultArgs ==
    [name |-> AliceExample, given |-> <<>>, surname |-> <<>>,
     preferred_name |-> <<>>, email |-> <<>>, phone |-> <<>>,
     github |-> <<>>, city |-> <<>>, country |-> <<>>, note |-> <<>>,
     avatar |-> <<>>, pgp_key_uri |-> <<>>, pgp_fingerprint |-> <<>>,
     out_svg |-> "vcf_qr.svg", vcf |-> "", line_ending |-> "crlf"]

\* every combination of name, given, surname and preferred name
NameArgs ==
    {[DefaultArgs EXCEPT !.name = n, !.given = g, !.surname = s,
                         !.preferred_name = p] :
        n \in Names, g \in Givens, s \in Surnames, p \in Preferreds}

\* every combination of present and absent optional fields
PresenceArgs ==
    {[DefaultArgs EXCEPT !.phone = ph, !.email = em, !.github = gh,
                         !.city = ci, !.country = co, !.note = no,
                         !.avatar = av, !.pgp_key_uri = ke,
                         !.pgp_fingerprint = fp, !.preferred_name = pr,
                         !.line_ending = le] :
        ph \in {<<>>, APhone}, em \in {<<>>, AnEmail}, gh \in {<<>>, Alice},
        ci \in {<<>>, ACity}, co \in {<<>>, ACountry}, no \in {<<>>, ANote},
        av \in {<<>>, HttpsAvatar}, ke \in {<<>>, HttpKey},
        fp \in {<<>>, Fp40}, pr \in {<<>>, <<"P">>}, le \in {"crlf", "lf"}}

Githubs == {<<>>, Alice, AProfileUrl, HTTP, LongHandle}
Avatars == {<<>>, HttpsAvatar, FtpAvatar}
PgpKeyUris == {<<>>, HttpKey, LocalKey}
Fingerprints == {<<>>, Fp8, Fp16, Fp40, FpNoHex, Fp7}

\* the values of the link, key and note fields
ValueArgs ==
    {[DefaultArgs EXCEPT !.github = gh, !.avatar = av, !.pgp_key_uri = ke,
                         !.pgp_fingerprint = fp, !.note = no,
                         !.line_ending = le] :
        gh \in Githubs, av \in Avatars, ke \in PgpKeyUris,
        fp \in Fingerprints, no \in {<<>>, LongNote}, le \in {"crlf", "lf"}}

\* a note that takes the payload over the warning threshold, and one that
\* takes it over the limit
WarnNote == [i \in 1..WARN_QR_BYTES |-> "x"]
HugeNote == [i \in 1..MAX_QR_BYTES |-> "x"]
\* "caf" and U+00E9, then a line feed and "ok"
AccentNote == <<"c", "a", "f", "U+00E9", LF, "o", "k">>

OutputNotes == {<<>>, AccentNote, WarnNote, HugeNote}

\* with and without a .vcf to write
OutputArgs ==
    {[DefaultArgs EXCEPT !.vcf = vc, !.line_ending = le, !.note = no,
                         !.pgp_fingerprint = fp] :
        vc \in {"", "card.vcf"}, le \in {"crlf", "lf"}, no \in OutputNotes,
        fp \in {<<>>, Fp8}}

\* a run in which the library and the file system do their work
AllWell == [svg_factory_available |-> TRUE, svg |-> "saved", vcf |-> "written"]

\* the runs of main that differ in what the library and the file system do
Environments ==
    {[svg_factory_available |-> TRUE, svg |-> s, vcf |-> v] :
        s \in SvgOutcomes, v \in VcfOutcomes}
    \cup {[AllWell EXCEPT !.svg_factory_available = FALSE]}

InitMain ==
    /\ pc = "check_name"
    /\ args \in NameArgs \cup PresenceArgs \cup ValueArgs \cup OutputArgs
    /\ call \in {[f |-> "main",
                   svg_factory_available |-> e.svg_factory_available,
                   svg |-> e.svg, vcf |-> e.vcf] :
                    e \in IF args \in OutputArgs THEN Environments
                          ELSE {AllWell}}
    /\ ret = NoRet
    /\ given = <<>>
    /\ surname = <<>>
    /\ fn = <<>>
    /\ normalized_fp = <<>>
    /\ vcard = None
    /\ stderr = <<>>
    /\ exit_code = NoExit
    /\ svg_file = None
    /\ vcf_file = None

\* build_vcard called with arguments main would have refused
DirectBuildArgs ==
    {[full_name |-> f, given |-> <<"G">>, surname |-> <<"S">>,
      preferred_name |-> <<>>, email |-> None, phone |-> <<>>,
      github |-> gh, city |-> <<>>, country |-> <<>>, note |-> <<>>,
      avatar_uri |-> av, pgp_key_uri |-> ke, pgp_fingerprint |-> fp,
      line_ending |-> le] :
        f \in {None, <<>>, AliceExample}, gh \in {None, Alice},
        av \in Avatars, ke \in PgpKeyUris, fp \in {<<>>, FpNoHex},
        le \in {CRLF, LFonly}}

InitBuild ==
    /\ pc = "call"
    /\ call \in {[f |-> "build_vcard", a |-> a] : a \in DirectBuildArgs}
    /\ ret = NoRet
    /\ MainIdle

\* the arguments of build_vcard of generate_vcard_qr.py
DirectBuildArgsV1 ==
    {[full_name |-> f, email |-> em, phone |-> <<>>, github |-> gh,
      city |-> ci, timezone |-> tz, note |-> no, avatar_uri |-> av] :
        f \in {AliceExample, <<>>}, em \in {None, AnEmail},
        gh \in {<<>>, Alice, AProfileUrl}, ci \in {<<>>, ACity},
        tz \in {<<>>, ATimezone}, no \in {<<>>, ANote, LongNote},
        av \in Avatars}

InitBuildV1 ==
    /\ pc = "call"
    /\ call \in {[f |-> "build_vcard_v1", a |-> a] : a \in DirectBuildArgsV1}
    /\ ret = NoRet
    /\ MainIdle

\* the arguments of main of generate_vcard_qr.py
DefaultArgsV1 ==
    [name |-> AliceExample, email |-> <<>>, phone |-> <<>>, github |-> <<>>,
     city |-> <<>>, timezone |-> <<>>, note |-> <<>>, avatar |-> <<>>,
     out_svg |-> "vcf_qr.svg", vcf |-> ""]

MainArgsV1 ==
    {[DefaultArgsV1 EXCEPT !.name = n, !.avatar = av, !.note = no,
                           !.vcf = vc] :
        n \in {<<>>, AliceExample}, av \in Avatars, no \in OutputNotes,
        vc \in {"", "card.vcf"}}

InitMainV1 ==
    /\ pc = "check_name"
    /\ args \in MainArgsV1
    /\ call \in {[f |-> "main_v1", svg |-> s, vcf |-> v] :
                    s \in SvgOutcomes, v \in VcfOutcomes}
    /\ ret = NoRet
    /\ given = <<>>
    /\ surname = <<>>
    /\ fn = <<>>
    /\ normalized_fp = <<>>
    /\ vcard = None
    /\ stderr = <<>>
    /\ exit_code = NoExit
    /\ svg_file = None
    /\ vcf_file = None

Init == InitMain \/ InitBuild \/ InitBuildV1 \/ InitMainV1

Spec == Init /\ [][Next]_vars

\* arguments that main refuses, next to ones it accepts
FailingArgs ==
    {[DefaultArgs EXCEPT !.name = n, !.avatar = av, !.pgp_key_uri = ke,
                         !.pgp_fingerprint = fp, !.vcf = "card.vcf"] :
        n \in {<<>>, AliceExample}, av \in Avatars, ke \in PgpKeyUris,
        fp \in {<<>>, Fp7, Fp16}}

\* the runs of the two mains with every outcome of the library and the
\* file system
InitRuns ==
    \/ /\ pc = "check_name"
       /\ args \in OutputArgs \cup FailingArgs
       /\ call \in {[f |-> "main",
                      svg_factory_available |-> e.svg_factory_available,
                      svg |-> e.svg, vcf |-> e.vcf] :
                       e \in IF args \in OutputArgs THEN Environments
                             ELSE {AllWell}}
       /\ ret = NoRet
       /\ given = <<>>
       /\ surname = <<>>
       /\ fn = <<>>
       /\ normalized_fp = <<>>
       /\ vcard = None
       /\ stderr = <<>>
       /\ exit_code = NoExit
       /\ svg_file = None
       /\ vcf_file = None
    \/ InitMainV1

NextMain ==
    \/ CheckName
    \/ CheckAvatar
    \/ CheckPgpKeyUri
    \/ NormalizeFp
    \/ ResolveNames
    \/ DecideFn
    \/ BuildVcard
    \/ SizeCheck
    \/ GenerateSvg
    \/ SaveVcf
    \/ CheckNameV1
    \/ CheckAvatarV1
    \/ BuildVcardV1
    \/ SizeCheckV1
    \/ GenerateSvgV1
    \/ SaveVcfV1

SpecRuns == InitRuns /\ [][NextMain]_vars

----------------------------------------------------------------------------
(* approx_size_warn_and_check applied to one payload                      *)

SizeSlack == 5

\* some characters outside ASCII with the bytes each takes in UTF-8
WidePrefixes ==
    {[chars |-> <<>>, bytes |-> 0],
     [chars |-> <<"U+00E9">>, bytes |-> 2],
     [chars |-> <<"U+20AC">>, bytes |-> 3],
     [chars |-> <<"U+1F600">>, bytes |-> 4],
     [chars |-> <<"U+00E9", "U+20AC">>, bytes |-> 5]}

AsciiLengths ==
    (0..SizeSlack)
        \cup ((WARN_QR_BYTES - SizeSlack)..(WARN_QR_BYTES + SizeSlack))
        \cup ((MAX_QR_BYTES - SizeSlack)..(MAX_QR_BYTES + SizeSlack))

InitSize ==
    /\ pc = "call"
    /\ \E n \in AsciiLengths, w \in WidePrefixes :
          call = [f |-> "approx_size_warn_and_check",
                  s |-> w.chars \o [i \in 1..n |-> "x"],
                  bytes |-> n + w.bytes]
    /\ ret = NoRet
    /\ MainIdle

CallSizeCheck ==
    /\ pc = "call"
    /\ call.f = "approx_size_warn_and_check"
    /\ ret' = approx_size_warn_and_check(call.s)
    /\ pc' = "returned"
    /\ UNCHANGED <<call, mainvars>>

SpecSize == InitSize /\ [][CallSizeCheck]_vars

SizeReturned == pc = "returned" /\ call.f = "approx_size_warn_and_check"

\* C7: with n the UTF-8 length of the payload, the check neither warns nor
\* raises iff n <= 2000, warns without raising iff 2000 < n <= 2950, and
\* raises an error carrying n iff n > 2950; the warning carries n too.
C7_SizeVerdict ==
    SizeReturned =>
        LET n == call.bytes
            warned == ret.printed # <<>>
            rejected == ret.outcome.kind = "raise"
        IN  /\ (~warned /\ ~rejected) <=> n <= 2000
            /\ (warned /\ ~rejected) <=> (2000 < n /\ n <= 2950)
            /\ rejected <=> n > 2950
            /\ rejected => ret.outcome.error.length = n
            /\ warned => ret.printed = <<[what |-> "size warning", length |-> n]>>

C7_Witness ==
    /\ SizeReturned
    /\ call.bytes = 2950
    /\ Len(call.s) = 2947
    /\ ret.printed # <<>>
    /\ ret.outcome.kind = "return"

----------------------------------------------------------------------------
(* Reading a payload back: physical lines, unfolding, property names       *)

\* a payload has just been built: main is past its call of build_vcard, or
\* build_vcard called on its own has returned
Built ==
    \/ call.f = "main" /\ pc = "size_check"
    \/ call.f = "build_vcard" /\ pc = "returned" /\ ret.kind = "return"

Payload == IF call.f = "main" THEN vcard ELSE ret.value

BuildInput == IF call.f = "main" THEN BuildArgsOfMain ELSE call.a

\* the physical lines of the payload; the last one is what follows the final
\* terminator
PhysicalLines == SplitOn(Payload, BuildInput.line_ending)

\* a physical line that starts with a space continues the line before it
RECURSIVE Unfold(_)
Unfold(lines) ==
    IF Len(lines) <= 1 THEN lines
    ELSE LET front == Unfold(SubSeq(lines, 1, Len(lines) - 1))
             last == lines[Len(lines)]
         IN  IF last # <<>> /\ last[1] = " "
             THEN [front EXCEPT ![Len(front)] = @ \o Tail(last)]
             ELSE Append(front, last)

\* the logical lines of the payload, without the empty piece after the final
\* terminator
LogicalLines ==
    LET u == Unfold(PhysicalLines)
    IN  SubSeq(u, 1, Len(u) - 1)

\* the property name of a line: what precedes its first ':' or ';'
PropName(line) ==
    LET stops == {i \in 1..Len(line) : line[i] \in {":", ";"}}
    IN  IF stops = {} THEN line
        ELSE SubSeq(line, 1, (CHOOSE i \in stops : \A j \in stops : i <= j) - 1)

PropNamesOf(lines) == [k \in 1..Len(lines) |-> PropName(lines[k])]

PropNames == PropNamesOf(LogicalLines)

HasLine(lines, line) == \E k \in 1..Len(lines) : lines[k] = line

HasProp(lines, name) == \E k \in 1..Len(lines) : PropName(lines[k]) = name

FixedOrder ==
    <<
      <<"B", "E", "G", "I", "N">>,
      <<"V", "E", "R", "S", "I", "O", "N">>,
      <<"F", "N">>,
      <<"N">>,
      <<"T", "E", "L">>,
      <<"E", "M", "A", "I", "L">>,
      <<"U", "R", "L">>,
      <<"X", "-", "S", "O", "C", "I", "A",
        "L", "P", "R", "O", "F", "I", "L", "E">>,
      <<"i", "t", "e", "m", "1", ".", "U", "R", "L">>,
      <<"i", "t", "e", "m", "1", ".", "X",
        "-", "A", "B", "L", "a", "b", "e", "l">>,
      <<"A", "D", "R">>,
      <<"N", "O", "T", "E">>,
      <<"P", "H", "O", "T", "O">>,
      <<"K", "E", "Y">>,
      <<"X", "-", "P", "G", "P", "-", "F", "P">>,
      <<"N", "I", "C", "K", "N", "A", "M", "E">>,
      <<"X", "-", "P", "R", "E", "F", "E", "R",
        "R", "E", "D", "-", "N", "A", "M", "E">>,
      <<"E", "N", "D">>
    >>

PlaceInOrder(name) == CHOOSE i \in 1..Len(FixedOrder) : FixedOrder[i] = name

InFixedOrder(names) ==
    /\ Len(names) >= 3
    /\ names[1] = FixedOrder[1]
    /\ names[2] = FixedOrder[2]
    /\ names[Len(names)] = FixedOrder[Len(FixedOrder)]
    /\ \A k \in 1..Len(names) :
          \E i \in 1..Len(FixedOrder) : FixedOrder[i] = names[k]
    /\ \A k \in 1..(Len(names) - 1) :
          PlaceInOrder(names[k]) < PlaceInOrder(names[k + 1])

EndsWith(s, suffix) ==
    /\ Len(s) >= Len(suffix)
    /\ SubSeq(s, Len(s) - Len(suffix) + 1, Len(s)) = suffix

\* C4: the property names of the unfolded payload start with BEGIN, VERSION,
\* end with END, follow the fixed order without repetition, and the payload
\* ends with the chosen terminator.
C4_FieldOrder ==
    Built =>
        /\ InFixedOrder(PropNames)
        /\ EndsWith(Payload, BuildInput.line_ending)

C4_Witness ==
    /\ Built
    /\ call.f = "main"
    /\ args.line_ending = "lf"
    /\ PropNames = FixedOrder

----------------------------------------------------------------------------
(* Avatar and key URIs                                                     *)

IsHttpValue(s) == StartsWith(s, HTTP) \/ StartsWith(s, HTTPS)

Refused(uri) == uri # None /\ uri # <<>> /\ ~IsHttpValue(uri)

UriLines(lines, a) ==
    LET photo == a.avatar_uri # None /\ a.avatar_uri # <<>>
        key == a.pgp_key_uri # None /\ a.pgp_key_uri # <<>>
    IN  /\ HasProp(lines, <<"P", "H", "O", "T", "O">>) <=> photo
        /\ HasProp(lines, <<"K", "E", "Y">>) <=> key
        /\ photo =>
              /\ IsHttpValue(a.avatar_uri)
              /\ HasLine(lines, PHOTO_ \o escape_vcard_value(a.avatar_uri))
        /\ key =>
              /\ IsHttpValue(a.pgp_key_uri)
              /\ HasLine(lines, KEY_ \o escape_vcard_value(a.pgp_key_uri))

\* build_vcard of generate_vcard_qr.py has returned a payload
BuiltV1 == call.f = "build_vcard_v1" /\ pc = "returned" /\ ret.kind = "return"

\* its logical lines; its terminator is CR LF
LogicalLinesV1 ==
    LET u == Unfold(SplitOn(ret.value, CRLF))
    IN  SubSeq(u, 1, Len(u) - 1)

PhotoLineV1(lines, a) ==
    LET photo == a.avatar_uri # None /\ a.avatar_uri # <<>>
    IN  /\ HasProp(lines, <<"P", "H", "O", "T", "O">>) <=> photo
        /\ ~HasProp(lines, <<"K", "E", "Y">>)
        /\ photo =>
              /\ IsHttpValue(a.avatar_uri)
              /\ HasLine(lines, PHOTO_ \o escape_vcard_value_v1(a.avatar_uri))

\* C5: a non-empty avatar or key URI that does not start with http:// or
\* https:// stops the construction with an error (main exits before any
\* payload or file exists, build_vcard raises) and a payload never holds a
\* PHOTO or KEY line for it; a payload holds the line PHOTO;VALUE=URI: (or
\* KEY;VALUE=URI:) followed by the escaped URI exactly when the URI is given,
\* and then the URI is an http(s) one.  The same holds of the avatar in
\* build_vcard of generate_vcard_qr.py, which takes no key URI.
C5_UriAccepted ==
    /\ (call.f = "build_vcard_v1" /\ pc = "returned"
            /\ Refused(call.a.avatar_uri)) =>
          ret.kind = "raise" /\ ret.error.type = "ValueError"
    /\ BuiltV1 => PhotoLineV1(LogicalLinesV1, call.a)
    /\ (call.f = "main"
            /\ (Refused(args.avatar) \/ Refused(args.pgp_key_uri))) =>
          /\ vcard = None /\ svg_file = None /\ vcf_file = None
          /\ pc \in {"check_name", "check_avatar", "check_pgp_key_uri", "exit"}
          /\ pc = "exit" => exit_code \in {2, 3, 4}
    /\ (call.f = "build_vcard" /\ pc = "returned"
            /\ (Refused(call.a.avatar_uri) \/ Refused(call.a.pgp_key_uri))) =>
          ret.kind = "raise" /\ ret.error.type = "ValueError"
    /\ Built => UriLines(LogicalLines, BuildInput)

C5_Witness ==
    /\ call.f = "build_vcard"
    /\ pc = "returned"
    /\ call.a.avatar_uri = FtpAvatar
    /\ call.a.pgp_key_uri = HttpKey
    /\ ret.kind = "raise"

----------------------------------------------------------------------------
(* Fingerprints                                                            *)

UpperOf ==
    [c \in HexDigits \cup HexUpper \cup HexLower |->
        CASE c = "a" -> "A" [] c = "b" -> "B" [] c = "c" -> "C"
          [] c = "d" -> "D" [] c = "e" -> "E" [] c = "f" -> "F"
          [] OTHER -> c]

\* the hex characters of a string, in order, in upper case
RECURSIVE HexCharsUpper(_)
HexCharsUpper(s) ==
    IF s = <<>> THEN <<>>
    ELSE IF Head(s) \in DOMAIN UpperOf
         THEN <<UpperOf[Head(s)]>> \o HexCharsUpper(Tail(s))
         ELSE HexCharsUpper(Tail(s))

PastNormalizeFp ==
    /\ call.f = "main"
    /\ \/ pc \in {"resolve_names", "decide_fn", "build", "size_check",
                  "generate_svg", "save_vcf", "done"}
       \/ pc = "exit" /\ exit_code >= 5

ValueAfter(prefix, line) == SubSeq(line, Len(prefix) + 1, Len(line))

FingerprintLines(lines, fp) ==
    \A k \in 1..Len(lines) :
        PropName(lines[k]) = <<"X", "-", "P", "G", "P", "-", "F", "P">> =>
            LET v == ValueAfter(X_PGP_FP_, lines[k])
            IN  /\ Len(v) \in {8, 16, 40}
                /\ \A i \in 1..Len(v) : v[i] \in HexDigits \cup HexUpper
                /\ v = HexCharsUpper(fp)

\* C6: for a non-empty fingerprint argument main either goes on with exactly
\* its hex characters, in order and in upper case, when there are 8, 16 or 40
\* of them, or exits with the fingerprint error when there is any other
\* number of them (none included); every X-PGP-FP line of a payload main
\* built carries 8, 16 or 40 characters of 0-9A-F.
C6_Fingerprint ==
    /\ (PastNormalizeFp /\ args.pgp_fingerprint # <<>>) =>
          LET hex == HexCharsUpper(args.pgp_fingerprint)
          IN  IF Len(hex) \in {8, 16, 40}
              THEN normalized_fp = hex /\ ~(pc = "exit" /\ exit_code = 5)
              ELSE pc = "exit" /\ exit_code = 5 /\ normalized_fp = <<>>
    /\ (Built /\ call.f = "main") =>
          FingerprintLines(LogicalLines, args.pgp_fingerprint)

C6_Witness ==
    /\ Built
    /\ call.f = "main"
    /\ args.pgp_fingerprint = Fp16
    /\ normalized_fp = Fp16Hex
    /\ HasLine(LogicalLines, X_PGP_FP_ \o Fp16Hex)

----------------------------------------------------------------------------
(* Names                                                                   *)

\* s without its leading and trailing whitespace, one character at a time
RECURSIVE TrimLeft(_)
TrimLeft(s) ==
    IF s # <<>> /\ IsSpace(Head(s)) THEN TrimLeft(Tail(s)) ELSE s

RECURSIVE TrimRight(_)
TrimRight(s) ==
    IF s # <<>> /\ IsSpace(s[Len(s)])
    THEN TrimRight(SubSeq(s, 1, Len(s) - 1)) ELSE s

Trim(s) == TrimRight(TrimLeft(s))

\* the whitespace-separated tokens of s, read left to right; cur is the
\* token being read
RECURSIVE TokensFrom(_, _)
TokensFrom(s, cur) ==
    IF s = <<>> THEN (IF cur = <<>> THEN <<>> ELSE <<cur>>)
    ELSE IF IsSpace(Head(s))
         THEN (IF cur = <<>> THEN <<>> ELSE <<cur>>) \o TokensFrom(Tail(s), <<>>)
         ELSE TokensFrom(Tail(s), Append(cur, Head(s)))

Tokens(s) == TokensFrom(s, <<>>)

RECURSIVE SpaceJoined(_)
SpaceJoined(tokens) ==
    IF tokens = <<>> THEN <<>>
    ELSE IF Len(tokens) = 1 THEN tokens[1]
    ELSE tokens[1] \o <<" ">> \o SpaceJoined(Tail(tokens))

PastResolveNames ==
    /\ call.f = "main"
    /\ \/ pc \in {"decide_fn", "build", "size_check", "generate_svg",
                  "save_vcf", "done"}
       \/ pc = "exit" /\ exit_code >= 6

PastDecideFn ==
    /\ call.f = "main"
    /\ \/ pc \in {"build", "size_check", "generate_svg", "save_vcf", "done"}
       \/ pc = "exit" /\ exit_code >= 6

\* C8: when the trimmed given name and the trimmed surname are both empty,
\* a full name of two or more tokens gives its last token as surname and the
\* other tokens, joined by single spaces, as given name, and a full name of
\* one token gives that token as given name and no surname; when one of the
\* two is not empty both are used, trimmed, and the full name is not split.
\* The N line of the payload carries them.
C8_GivenSurname ==
    /\ PastResolveNames =>
          LET g == Trim(args.given)
              s == Trim(args.surname)
              toks == Tokens(args.name)
              n == Len(toks)
          IN  /\ (g = <<>> /\ s = <<>> /\ n >= 2) =>
                    /\ surname = toks[n]
                    /\ given = SpaceJoined(SubSeq(toks, 1, n - 1))
              /\ (g = <<>> /\ s = <<>> /\ n = 1) =>
                    given = toks[1] /\ surname = <<>>
              /\ (g # <<>> \/ s # <<>>) => given = g /\ surname = s
    /\ (Built /\ call.f = "main") =>
          LogicalLines[4] = N_ \o escape_vcard_value(surname) \o <<";">>
                               \o escape_vcard_value(given) \o <<";", ";", ";">>

C8_Witness ==
    /\ Built
    /\ call.f = "main"
    /\ args.name = AdaKingLovelace
    /\ args.given = <<" ">>
    /\ args.surname = <<>>
    /\ given = <<"A", "d", "a", " ", "K", "i", "n", "g">>
    /\ surname = <<"L", "o", "v", "e", "l", "a", "c", "e">>

----------------------------------------------------------------------------
(* The profile handle                                                      *)

\* "https://github.com/alice"
GithubAlice ==
    <<"h", "t", "t", "p", "s", ":", "/", "/", "g", "i", "t", "h", "u", "b",
      ".", "c", "o", "m", "/", "a", "l", "i", "c", "e">>

ProfileLines(lines, g) ==
    LET url == IF IsHttpValue(g) THEN g ELSE SubSeq(GithubAlice, 1, 19) \o g
    IN  IF g # None /\ g # <<>>
        THEN /\ HasLine(lines, <<"U", "R", "L", ":">> \o escape_vcard_value(url))
             /\ HasLine(lines, ITEM1_URL_ \o escape_vcard_value(url))
             /\ HasLine(lines, ITEM1_X_ABLABEL)
             /\ g = Alice => HasLine(lines, <<"U", "R", "L", ":">> \o GithubAlice)
        ELSE \A k \in 1..Len(lines) :
                PropName(lines[k]) \notin
                    {FixedOrder[7], FixedOrder[8], FixedOrder[9],
                     FixedOrder[10]}

\* C10: for a non-empty handle g the payload holds the lines URL:u,
\* item1.URL;type=pref:u and item1.X-ABLabel:GitHub, where u is the escaped
\* form of g itself when g starts with http:// or https:// and of
\* https://github.com/ followed by g otherwise; for an empty handle it holds
\* no URL, X-SOCIALPROFILE, item1.URL or item1.X-ABLabel line.
C10_ProfileUrl == Built => ProfileLines(LogicalLines, BuildInput.github)

HasProfileOfAlice(lines) ==
    /\ HasLine(lines, <<"U", "R", "L", ":">> \o GithubAlice)
    /\ HasLine(lines, ITEM1_URL_ \o GithubAlice)
    /\ HasLine(lines, ITEM1_X_ABLABEL)

C10_Witness ==
    /\ Built
    /\ BuildInput.github = Alice
    /\ HasProfileOfAlice(LogicalLines)


----------------------------------------------------------------------------
(* The .vcf file                                                           *)

\* a run of main has written the .vcf
VcfWritten(tool) ==
    /\ call.f = tool
    /\ pc = "done"
    /\ args.vcf # ""
    /\ call.vcf = "written"

SavedBytesMatch(tool) == VcfWritten(tool) => vcf_file = Utf8Encode(vcard)

\* C11: in both tools and with both terminators, the bytes of the .vcf that
\* main has written are the UTF-8 encoding of the payload it built: no
\* terminator added, removed or translated.
C11_ByteForByte ==
    /\ SavedBytesMatch("main")
    /\ SavedBytesMatch("main_v1")

\* generate_vcard_qr.py has written the payload with a CR in front of every
\* CR LF
C11_Witness ==
    /\ VcfWritten("main_v1")
    /\ args.note = <<>>
    /\ vcf_file # Utf8Encode(vcard)
    /\ vcf_file = Utf8Encode(Replace(vcard, CRLF, <<CR>> \o CRLF))
    /\ MatchAt(vcf_file, <<CR, CR, LF>>, Len(BEGIN_VCARD) + 1)


----------------------------------------------------------------------------
(* The stages of a run of main                                             *)

IsMain == call.f \in {"main", "main_v1"}

\* input validation 1, record build 2, size validation 3, QR image write 4,
\* .vcf write 5, the end of the run 6
StageOf(p) ==
    CASE p = "build" -> 2
      [] p = "size_check" -> 3
      [] p = "generate_svg" -> 4
      [] p = "save_vcf" -> 5
      [] p \in {"done", "exit"} -> 6
      [] OTHER -> 1

NameMissing ==
    IF call.f = "main"
    THEN args.name = <<>> /\ args.given = <<>> /\ args.surname = <<>>
    ELSE args.name = <<>>

BadUri ==
    IF call.f = "main"
    THEN Refused(args.avatar) \/ Refused(args.pgp_key_uri)
    ELSE Refused(args.avatar)

BadFingerprint ==
    /\ call.f = "main"
    /\ args.pgp_fingerprint # <<>>
    /\ Len(HexCharsUpper(args.pgp_fingerprint)) \notin {8, 16, 40}

TooLarge == vcard # None /\ Utf8Len(vcard) > MAX_QR_BYTES

\* the exit codes of the failures before the QR image write
ValidationExits == IF call.f = "main" THEN {2, 3, 4, 5} ELSE {2, 3}
BuildExit == IF call.f = "main" THEN 6 ELSE 4
SizeExit == IF call.f = "main" THEN 7 ELSE 5
SvgExit == IF call.f = "main" THEN 8 ELSE 6

ErrorExit(codes) == pc = "exit" /\ exit_code \in codes

Printed(what) == \E i \in 1..Len(stderr) : stderr[i].what = what

NothingWritten == svg_file = None /\ vcf_file = None

\* what holds in every state of a run
StagesInState ==
    IsMain =>
        /\ (NameMissing \/ BadUri \/ BadFingerprint) =>
              /\ StageOf(pc) \in {1, 6}
              /\ vcard = None
              /\ pc # "done"
        /\ TooLarge => StageOf(pc) \in {3, 6} /\ pc # "done"
        /\ ErrorExit(ValidationExits \cup {BuildExit, SizeExit}) =>
              NothingWritten
        /\ ErrorExit(ValidationExits) =>
              NameMissing \/ BadUri \/ BadFingerprint
        /\ ErrorExit({SizeExit}) => TooLarge
        /\ pc = "exit" =>
              exit_code \in ValidationExits
                              \cup {BuildExit, SizeExit, SvgExit}
        /\ vcard # None => StageOf(pc) >= 3
        /\ svg_file # None => StageOf(pc) >= 5 /\ ~TooLarge
        /\ svg_file \notin {None, Incomplete} => svg_file = SvgOf(vcard)
        /\ vcf_file # None => pc = "done" /\ svg_file = SvgOf(vcard)
        /\ StageOf(pc) = 5 => svg_file = SvgOf(vcard)

\* what holds of every step of a run
StagesInStep ==
    IsMain =>
        /\ pc \notin {"done", "exit"}
        /\ StageOf(pc') >= StageOf(pc)
        /\ vcard' # vcard => StageOf(pc) = 2
        /\ svg_file' # svg_file => StageOf(pc) = 4
        /\ vcf_file' # vcf_file => StageOf(pc) = 5
        /\ (StageOf(pc) = 3 /\ ~TooLarge) => pc' = "generate_svg"
        /\ (pc = "normalize_fp" /\ ~BadFingerprint) => pc' # "exit"

\* C12: in both tools a run of main goes through validation, build, size
\* check, QR image write and .vcf write in this order and takes no step
\* after its end; the payload is set only by the build, the SVG only by the
\* image write, the .vcf only by the .vcf write.  A run with a missing name,
\* a refused URI, an invalid fingerprint or a payload over the limit is,
\* once past the stage that detects it, at an error exit with no payload
\* passed on, no SVG and no .vcf written.  The .vcf exists only
\* with the SVG of the same payload written.  A payload within the limit
\* and a fingerprint of 8, 16 or 40 hex characters never stop the run,
\* whatever is printed, and the payload in the SVG is the one built.
C12_StageOrder ==
    /\ []StagesInState
    /\ [][StagesInStep]_vars

C12_Witness ==
    /\ call.f = "main"
    /\ pc = "done"
    /\ exit_code = NoExit
    /\ Printed("8-hex warning")
    /\ Printed("size warning")
    /\ Utf8Len(vcard) > WARN_QR_BYTES
    /\ svg_file = SvgOf(vcard)
    /\ vcf_file # None


----------------------------------------------------------------------------
(* The name handed to build_vcard                                          *)

\* main is about to call build_vcard
AtBuild == call.f = "main" /\ pc = "build"

\* C13: whenever main has passed its name check and is about to call
\* build_vcard, the formatted name it hands over is not empty and neither
\* starts nor ends with a space, and the given name or the surname is not
\* empty.
C13_UsableName ==
    AtBuild =>
        /\ fn # <<>>
        /\ fn[1] # " " /\ fn[Len(fn)] # " "
        /\ given # <<>> \/ surname # <<>>

\* a name of one space passes the name check and gives an empty FN and an
\* empty N
C13_Witness ==
    /\ Built
    /\ call.f = "main"
    /\ args.name = <<" ">>
    /\ args.given = <<>> /\ args.surname = <<>> /\ args.preferred_name = <<>>
    /\ fn = <<>> /\ given = <<>> /\ surname = <<>>
    /\ LogicalLines[3] = FN_
    /\ LogicalLines[4] = N_ \o <<";", ";", ";", ";">>

====
